---- MODULE Spec2Model ----
(***************************************************************************)
(* A model of package dirchanges (watcher.go): the Watcher's registration  *)
(* state (names, files, ignored), its configuration (ops, ignoreHidden,    *)
(* ffh), the listing functions (list, listRecursive, retrieveFileList) and *)
(* the diff (getDiff).  Paths are sequences of one-character strings, so   *)
(* that filepath.Dir, filepath.Join and strings.HasPrefix are computed on  *)
(* the characters, as the code computes them.                              *)
(***************************************************************************)
EXTENDS Integers, Sequences, FiniteSets, Bags, TLC

VARIABLES
    fs,            \* the filesystem: path -> metadata, or NoFile
    names,         \* w.names: root path -> recursive?
    files,         \* w.files: the stored snapshot, path -> metadata
    ignored,       \* w.ignored: set of paths
    ops,           \* w.ops: the Op filter (a set of Ops)
    ignoreHidden,  \* w.ignoreHidden
    ffh,           \* w.ffh: sequence of filter hooks
    fileList,      \* the mapping handed to getDiff by the last Diff
    res,           \* getDiff's local res: the events before Op filtering
    events,        \* what the last Diff returned (getDiff's filteredRes)
    last,          \* the last call: [op, arg, err]
    steps          \* number of calls and filesystem changes so far

vars == <<fs, names, files, ignored, ops, ignoreHidden, ffh,
          fileList, res, events, last, steps>>

-----------------------------------------------------------------------------
(* Bounds of the model *)

\* calls of the Watcher and changes of the filesystem per behaviour
MaxSteps == 4

\* filter hooks a watcher may hold
MaxHooks == 1

\* identity tokens (inodes) available to the mappings handed to getDiff
NumIno == 2

-----------------------------------------------------------------------------
(* Paths *)

EmptyPath == <<>>

PA   == <<"/", "a">>
PAH  == <<"/", "a", "/", ".", "h">>
PAHC == <<"/", "a", "/", ".", "h", "/", "c">>
PAF  == <<"/", "a", "/", "f">>
PAB  == <<"/", "a", "b">>
PN   == <<"/", "n">>

\* every path the model's filesystem may hold
Paths == {PA, PAH, PAHC, PAF, PAB}

\* index of the last separator of a path (0 when there is none)
LastSep(p) ==
    LET S == {i \in 1..Len(p) : p[i] = "/"}
    IN  IF S = {} THEN 0 ELSE CHOOSE i \in S : \A j \in S : j <= i

\* filepath.Dir on a clean absolute path
Dir(p) ==
    LET i == LastSep(p)
    IN  IF i = 0 THEN <<".">>
        ELSE IF i = 1 THEN <<"/">>
        ELSE SubSeq(p, 1, i - 1)

\* filepath.Base on a clean absolute path
Base(p) == SubSeq(p, LastSep(p) + 1, Len(p))

\* filepath.Join(dir, name) for a clean dir and a single file name
Join(d, n) == IF d = <<"/">> THEN d \o n ELSE d \o <<"/">> \o n

\* strings.HasPrefix
HasPrefix(s, prefix) ==
    /\ Len(prefix) <= Len(s)
    /\ SubSeq(s, 1, Len(prefix)) = prefix

\* path q is p or lies under p by whole path components
Under(q, p) == q = p \/ HasPrefix(q, p \o <<"/">>)

\* isHiddenFile: the base name starts with a dot
isHiddenFile(path) ==
    LET b == Base(path) IN Len(b) > 0 /\ b[1] = "."

-----------------------------------------------------------------------------
(* Metadata (os.FileInfo) and maps *)

NoFile == [none |-> TRUE]

FileInfo(n, sz, mt, md, d, s) ==
    [name |-> n, size |-> sz, modTime |-> mt, mode |-> md, dir |-> d, sys |-> s]

EmptyMap == [p \in {} |-> NoFile]

\* for k, v := range m2 { m1[k] = v }
Merge(m1, m2) ==
    [p \in (DOMAIN m1) \cup (DOMAIN m2) |->
        IF p \in DOMAIN m2 THEN m2[p] ELSE m1[p]]

\* delete(m, k) for every k in S
Delete(m, S) == [p \in (DOMAIN m) \ S |-> m[p]]

\* os.SameFile: the identity tokens are equal
sameFile(info1, info2) == info1.sys = info2.sys

-----------------------------------------------------------------------------
(* Errors *)

Nil == [kind |-> "nil"]

\* *os.PathError wrapping ENOENT: os.IsNotExist holds of it
PathErrNotExist(p) == [kind |-> "ENOENT", path |-> p]

ErrWatchedFileDeleted == [kind |-> "ErrWatchedFileDeleted"]

ErrSkip == [kind |-> "ErrSkip"]

\* an error of a filter hook other than ErrSkip
ErrHook == [kind |-> "hook"]

IsNotExist(err) == err.kind = "ENOENT"

-----------------------------------------------------------------------------
(* Ops and events *)

Create == "CREATE"
Write  == "WRITE"
Remove == "REMOVE"
Rename == "RENAME"
Chmod  == "CHMOD"
Move   == "MOVE"

Ops == {Create, Write, Remove, Rename, Chmod, Move}

Event(op, path, oldPath, info) ==
    [Op |-> op, Path |-> path, OldPath |-> oldPath, FileInfo |-> info]

-----------------------------------------------------------------------------
(* getDiff *)

\* the first loop: keys of the stored snapshot missing from the new mapping
RemovesOf(old, new) == {p \in DOMAIN old : p \notin DOMAIN new}

\* the second loop: keys of the new mapping missing from the stored snapshot
CreatesOf(old, new) == {p \in DOMAIN new : p \notin DOMAIN old}

\* WriteEvents, were a write detected by the size instead of the modification time
WriteEventsBySize(old, new) ==
    {Event(Write, p, p, new[p]) :
        p \in {q \in (DOMAIN new) \cap (DOMAIN old) : old[q].size # new[q].size}}

\* the second loop: Write and Chmod events of the paths in both mappings
WriteEvents(old, new) ==
    {Event(Write, p, p, new[p]) :
        p \in {q \in (DOMAIN new) \cap (DOMAIN old) : old[q].modTime # new[q].modTime}}

\* ChmodEvents, were the old path of the event left empty
ChmodEventsNoOldPath(old, new) ==
    {Event(Chmod, p, EmptyPath, new[p]) :
        p \in {q \in (DOMAIN new) \cap (DOMAIN old) : old[q].mode # new[q].mode}}

ChmodEvents(old, new) ==
    {Event(Chmod, p, p, new[p]) :
        p \in {q \in (DOMAIN new) \cap (DOMAIN old) : old[q].mode # new[q].mode}}

\* RenameOrMove, were the directories never compared
RenameOrMoveAlwaysMove(path1, path2) == Move

\* the Op of a correlated pair
RenameOrMove(path1, path2) ==
    IF Dir(path1) = Dir(path2) THEN Rename ELSE Move

\* RenameLoop, were the loop over removes left after its first key
RenameLoopFirstOnly(order, old, new, removes, creates, ev) ==
    IF order = <<>> THEN [ev |-> ev, removes |-> removes, creates |-> creates]
    ELSE
        LET path1   == Head(order)
            matched == {path2 \in creates : sameFile(old[path1], new[path2])}
            newEv   == {Event(RenameOrMove(path1, path2), path2, path1, old[path1]) :
                            path2 \in matched}
        IN  [ev |-> ev (+) SetToBag(newEv),
             removes |-> IF matched = {} THEN removes ELSE removes \ {path1},
             creates |-> creates \ matched]

\* The rename loop. order is the order in which range yields the keys of
\* removes; the inner range visits every key still in creates, deleting the
\* ones it matches, and does not stop at the first match.
\* Result: [ev: the events appended, removes, creates: what is left].
RECURSIVE RenameLoop(_, _, _, _, _, _)
RenameLoop(order, old, new, removes, creates, ev) ==
    IF order = <<>> THEN [ev |-> ev, removes |-> removes, creates |-> creates]
    ELSE
        LET path1   == Head(order)
            matched == {path2 \in creates : sameFile(old[path1], new[path2])}
            newEv   == {Event(RenameOrMove(path1, path2), path2, path1, old[path1]) :
                            path2 \in matched}
        IN  RenameLoop(Tail(order), old, new,
                       IF matched = {} THEN removes ELSE removes \ {path1},
                       creates \ matched,
                       ev (+) SetToBag(newEv))

\* the last two loops: what is left of creates and removes
CreateEvents(new, creates) == {Event(Create, p, EmptyPath, new[p]) : p \in creates}

\* RemoveEvents, were a Remove event sent for every path of the stored snapshot
RemoveEventsOfAll(old, removes) ==
    {Event(Remove, p, p, old[p]) : p \in DOMAIN old}

RemoveEvents(old, removes) == {Event(Remove, p, p, old[p]) : p \in removes}

\* res before the Op filter
Unfiltered(old, new, order) ==
    LET inPlace == SetToBag(WriteEvents(old, new)) (+) SetToBag(ChmodEvents(old, new))
        r == RenameLoop(order, old, new, RemovesOf(old, new), CreatesOf(old, new),
                        EmptyBag)
    IN  inPlace (+) r.ev
          (+) SetToBag(CreateEvents(new, r.creates))
          (+) SetToBag(RemoveEvents(old, r.removes))

\* FilterRes, were an empty w.ops applied as a filter too
FilterResAlways(r, wops) == [e \in {x \in DOMAIN r : x.Op \in wops} |-> r[e]]

\* the Op filter: with a non-empty w.ops, keep the events whose Op is in it
FilterRes(r, wops) ==
    IF Cardinality(wops) > 0
    THEN [e \in {x \in DOMAIN r : x.Op \in wops} |-> r[e]]
    ELSE r

\* the orders in which range may yield the keys of a set
Orders(S) ==
    {o \in [1..Cardinality(S) -> S] : \A i, j \in 1..Cardinality(S) : o[i] = o[j] => i = j}

-----------------------------------------------------------------------------
(* getDiff on mappings drawn from bounded sets *)

DiffPaths == {PAB, PN, PAF}

Inodes == 1..NumIno

\* size, modification time and mode of a fresh entry: unchanged, size alone,
\* modification time alone, mode alone, modification time and mode
Attrs ==
    {[size |-> 0, modTime |-> 0, mode |-> 0],
     [size |-> 1, modTime |-> 0, mode |-> 0],
     [size |-> 0, modTime |-> 1, mode |-> 0],
     [size |-> 0, modTime |-> 0, mode |-> 1],
     [size |-> 0, modTime |-> 1, mode |-> 1]}

BaseAttrs == [size |-> 0, modTime |-> 0, mode |-> 0]

\* what a path holds in a drawn mapping: nothing, or an identity and attributes
OldChoices == {NoFile} \cup {[sys |-> i, at |-> BaseAttrs] : i \in Inodes}

NewChoices == {NoFile} \cup {[sys |-> i, at |-> a] : i \in Inodes, a \in Attrs}

\* the mapping of a choice per path
MkMap(f) ==
    [p \in {q \in DOMAIN f : f[q] # NoFile} |->
        FileInfo(Base(p), f[p].at.size, f[p].at.modTime, f[p].at.mode, FALSE, f[p].sys)]

OpFilters == {{}, {Create}, {Write, Rename, Remove}}

NoCall == [op |-> "New", arg |-> EmptyPath, err |-> Nil]

InitDiff ==
    /\ fs = [p \in Paths |-> NoFile]
    /\ names = EmptyMap
    /\ \E o \in [DiffPaths -> OldChoices], n \in [DiffPaths -> NewChoices] :
          /\ files = MkMap(o)
          /\ fileList = MkMap(n)
    /\ ignored = {}
    /\ ops \in OpFilters
    /\ ignoreHidden = FALSE
    /\ ffh = <<>>
    /\ res = EmptyBag
    /\ events = EmptyBag
    /\ last = NoCall
    /\ steps = 0

\* w.getDiff(fileList)
GetDiffCall ==
    /\ last.op = "New"
    /\ \E order \in Orders(RemovesOf(files, fileList)) :
          /\ res' = Unfiltered(files, fileList, order)
          /\ events' = FilterRes(res', ops)
    /\ last' = [op |-> "getDiff", arg |-> EmptyPath, err |-> Nil]
    /\ steps' = steps + 1
    /\ UNCHANGED <<fs, names, files, ignored, ops, ignoreHidden, ffh, fileList>>

NextDiff == GetDiffCall

SpecDiff == InitDiff /\ [][NextDiff]_vars

-----------------------------------------------------------------------------
(* Filter hooks *)

\* the hooks a caller may install: one skips the directory /a/.h, one fails
\* on the file /a/f, one fails on the file /a/f with an *os.PathError that
\* reports that /a/f does not exist
Hooks == {"skipH", "abortF", "goneF"}

\* f(info, path) of hook h
HookResult(h, info, path) ==
    CASE h = "skipH"  -> IF path = PAH THEN ErrSkip ELSE Nil
      [] h = "abortF" -> IF path = PAF THEN ErrHook ELSE Nil
      [] h = "goneF"  -> IF path = PAF THEN PathErrNotExist(PAF) ELSE Nil

\* for _, f := range w.ffh: the first result that is not nil, else nil
RECURSIVE RunHooks(_, _, _)
RunHooks(hooks, info, path) ==
    IF hooks = <<>> THEN Nil
    ELSE LET err == HookResult(Head(hooks), info, path)
         IN  IF err # Nil THEN err ELSE RunHooks(Tail(hooks), info, path)

-----------------------------------------------------------------------------
(* Directory reading *)

CharCode(c) ==
    CASE c = "." -> 46 [] c = "/" -> 47 [] c = "a" -> 97 [] c = "b" -> 98
      [] c = "c" -> 99 [] c = "f" -> 102 [] c = "h" -> 104 [] c = "n" -> 110

\* s < t as strings
RECURSIVE StrLess(_, _)
StrLess(s, t) ==
    IF t = <<>> THEN FALSE
    ELSE IF s = <<>> THEN TRUE
    ELSE IF s[1] # t[1] THEN CharCode(s[1]) < CharCode(t[1])
    ELSE StrLess(Tail(s), Tail(t))

\* ioutil.ReadDir / readDirNames: the entries of a directory, sorted by name
ReadDir(fsys, name) ==
    LET C == {p \in Paths : fsys[p] # NoFile /\ Dir(p) = name}
    IN  CHOOSE o \in Orders(C) :
            \A i, j \in 1..Cardinality(C) : i < j => StrLess(Base(o[i]), Base(o[j]))

-----------------------------------------------------------------------------
(* list *)

\* the loop of list over the directory's entries; the result is
\* [list, err], list being nil (the empty map) when err is not nil
RECURSIVE ListLoop(_, _, _, _, _, _)
ListLoop(entries, fsys, ign, hid, hooks, acc) ==
    IF entries = <<>> THEN [list |-> acc, err |-> Nil]
    ELSE
        LET path == Head(entries)
            isIgnored == path \in ign
            isHidden == isHiddenFile(path)
            herr == RunHooks(hooks, fsys[path], path)
        IN  IF isIgnored \/ (hid /\ isHidden)
            THEN ListLoop(Tail(entries), fsys, ign, hid, hooks, acc)
            ELSE IF herr = ErrSkip
            THEN ListLoop(Tail(entries), fsys, ign, hid, hooks, acc)
            ELSE IF herr # Nil
            THEN [list |-> EmptyMap, err |-> herr]
            ELSE ListLoop(Tail(entries), fsys, ign, hid, hooks,
                          Merge(acc, [q \in {path} |-> fsys[path]]))

\* list, were the entries of the directory taken without any filtering
listUnfiltered(name, fsys, ign, hid, hooks) ==
    IF fsys[name] = NoFile
    THEN [list |-> EmptyMap, err |-> PathErrNotExist(name)]
    ELSE [list |-> [q \in {name} \cup {p \in Paths : fsys[p] # NoFile /\ Dir(p) = name}
                        |-> fsys[q]],
          err |-> Nil]

\* w.list(name)
list(name, fsys, ign, hid, hooks) ==
    IF fsys[name] = NoFile
    THEN [list |-> EmptyMap, err |-> PathErrNotExist(name)]
    ELSE IF ~fsys[name].dir
    THEN [list |-> [q \in {name} |-> fsys[name]], err |-> Nil]
    ELSE ListLoop(ReadDir(fsys, name), fsys, ign, hid, hooks,
                  [q \in {name} |-> fsys[name]])

-----------------------------------------------------------------------------
(* listRecursive *)

SkipDir == [kind |-> "SkipDir"]

\* WalkFn, were an excluded directory left out without filepath.SkipDir
WalkFnNoSkipDir(path, fsys, ign, hid, hooks, acc) ==
    LET info == fsys[path]
        herr == RunHooks(hooks, info, path)
    IN  IF herr = ErrSkip THEN [list |-> acc, ret |-> Nil]
        ELSE IF herr # Nil THEN [list |-> acc, ret |-> herr]
        ELSE IF path \in ign \/ (hid /\ isHiddenFile(path))
        THEN [list |-> acc, ret |-> Nil]
        ELSE [list |-> Merge(acc, [q \in {path} |-> info]), ret |-> Nil]

\* the function listRecursive hands to filepath.Walk, for an entry that
\* exists: [list, ret], ret being what the function returns
WalkFn(path, fsys, ign, hid, hooks, acc) ==
    LET info == fsys[path]
        herr == RunHooks(hooks, info, path)
        isIgnored == path \in ign
        isHidden == isHiddenFile(path)
    IN  IF herr = ErrSkip THEN [list |-> acc, ret |-> Nil]
        ELSE IF herr # Nil THEN [list |-> acc, ret |-> herr]
        ELSE IF isIgnored \/ (hid /\ isHidden)
        THEN [list |-> acc, ret |-> IF info.dir THEN SkipDir ELSE Nil]
        ELSE [list |-> Merge(acc, [q \in {path} |-> info]), ret |-> Nil]

\* filepath.walk: the function on the entry, then on its entries in order
RECURSIVE WalkPath(_, _, _, _, _, _), WalkEntries(_, _, _, _, _, _)
WalkPath(path, fsys, ign, hid, hooks, acc) ==
    LET r == WalkFn(path, fsys, ign, hid, hooks, acc)
    IN  IF ~fsys[path].dir \/ r.ret # Nil THEN r
        ELSE WalkEntries(ReadDir(fsys, path), fsys, ign, hid, hooks, r.list)

WalkEntries(entries, fsys, ign, hid, hooks, acc) ==
    IF entries = <<>> THEN [list |-> acc, ret |-> Nil]
    ELSE
        LET r == WalkPath(Head(entries), fsys, ign, hid, hooks, acc)
        IN  IF r.ret # Nil /\ ~(fsys[Head(entries)].dir /\ r.ret = SkipDir)
            THEN r
            ELSE WalkEntries(Tail(entries), fsys, ign, hid, hooks, r.list)

\* w.listRecursive(name): the map filled so far and filepath.Walk's error
listRecursive(name, fsys, ign, hid, hooks) ==
    IF fsys[name] = NoFile
    THEN [list |-> EmptyMap, err |-> PathErrNotExist(name)]
    ELSE LET r == WalkPath(name, fsys, ign, hid, hooks, EmptyMap)
         IN  [list |-> r.list, err |-> IF r.ret = SkipDir THEN Nil ELSE r.ret]

-----------------------------------------------------------------------------
(* The Watcher's operations.  Every name is already absolute, so           *)
(* filepath.Abs returns it unchanged and never fails.                       *)

Call(op, arg, err) == [op |-> op, arg |-> arg, err |-> err]

\* a call returns: it is the last call, and one more step is taken
Returns(op, arg, err) ==
    /\ last' = Call(op, arg, err)
    /\ steps' = steps + 1

\* a call other than Diff returns no events
NoEvents ==
    /\ fileList' = EmptyMap
    /\ res' = EmptyBag
    /\ events' = EmptyBag

\* the entries Remove deletes from w.files
RemoveKeys(name, m) ==
    IF name \notin DOMAIN m THEN {}
    ELSE IF ~m[name].dir THEN {name}
    ELSE {name} \cup {path \in DOMAIN m : Dir(path) = name}

\* the entries RemoveRecursive deletes from w.files
RemoveRecursiveKeys(name, m) ==
    IF name \notin DOMAIN m THEN {}
    ELSE IF ~m[name].dir THEN {name}
    ELSE {path \in DOMAIN m : HasPrefix(path, name)}

\* w.AddFilterHook(f)
AddFilterHook(f) ==
    /\ steps < MaxSteps
    /\ Len(ffh) < MaxHooks
    /\ ffh' = Append(ffh, f)
    /\ Returns("AddFilterHook", EmptyPath, Nil)
    /\ NoEvents
    /\ UNCHANGED <<fs, names, files, ignored, ops, ignoreHidden>>

\* w.IgnoreHiddenFiles(ignore)
IgnoreHiddenFiles(ignore) ==
    /\ steps < MaxSteps
    /\ ignoreHidden' = ignore
    /\ Returns("IgnoreHiddenFiles", EmptyPath, Nil)
    /\ NoEvents
    /\ UNCHANGED <<fs, names, files, ignored, ops, ffh>>

\* w.FilterOps(ops...)
FilterOps(o) ==
    /\ steps < MaxSteps
    /\ ops' = o
    /\ Returns("FilterOps", EmptyPath, Nil)
    /\ NoEvents
    /\ UNCHANGED <<fs, names, files, ignored, ignoreHidden, ffh>>

\* what Add(name) makes of w.files and w.names, and what it returns
AddResult(name) ==
    LET isIgnored == name \in ignored
        isHidden == isHiddenFile(name)
        r == list(name, fs, ignored, ignoreHidden, ffh)
    IN  IF isIgnored \/ (ignoreHidden /\ isHidden)
        THEN [files |-> files, names |-> names, err |-> Nil]
        ELSE IF r.err # Nil
        THEN [files |-> files, names |-> names, err |-> r.err]
        ELSE [files |-> Merge(files, r.list),
              names |-> Merge(names, [q \in {name} |-> FALSE]),
              err |-> Nil]

\* w.Add(name)
Add(name) ==
    /\ steps < MaxSteps
    /\ files' = AddResult(name).files
    /\ names' = AddResult(name).names
    /\ Returns("Add", name, AddResult(name).err)
    /\ NoEvents
    /\ UNCHANGED <<fs, ignored, ops, ignoreHidden, ffh>>

\* AddRecursiveResult, were the name recorded as a root before the listing
AddRecursiveResultRecording(name) ==
    LET r == listRecursive(name, fs, ignored, ignoreHidden, ffh)
    IN  IF r.err # Nil
        THEN [files |-> files,
              names |-> Merge(names, [q \in {name} |-> TRUE]),
              err |-> r.err]
        ELSE [files |-> Merge(files, r.list),
              names |-> Merge(names, [q \in {name} |-> TRUE]),
              err |-> Nil]

\* what AddRecursive(name) makes of w.files and w.names, and what it returns
AddRecursiveResult(name) ==
    LET r == listRecursive(name, fs, ignored, ignoreHidden, ffh)
    IN  IF r.err # Nil
        THEN [files |-> files, names |-> names, err |-> r.err]
        ELSE [files |-> Merge(files, r.list),
              names |-> Merge(names, [q \in {name} |-> TRUE]),
              err |-> Nil]

\* w.AddRecursive(name)
AddRecursive(name) ==
    /\ steps < MaxSteps
    /\ files' = AddRecursiveResult(name).files
    /\ names' = AddRecursiveResult(name).names
    /\ Returns("AddRecursive", name, AddRecursiveResult(name).err)
    /\ NoEvents
    /\ UNCHANGED <<fs, ignored, ops, ignoreHidden, ffh>>

\* w.Remove(name)
RemoveCall(name) ==
    /\ steps < MaxSteps
    /\ names' = Delete(names, {name})
    /\ files' = Delete(files, RemoveKeys(name, files))
    /\ Returns("Remove", name, Nil)
    /\ NoEvents
    /\ UNCHANGED <<fs, ignored, ops, ignoreHidden, ffh>>

\* w.RemoveRecursive(name)
RemoveRecursive(name) ==
    /\ steps < MaxSteps
    /\ names' = Delete(names, {name})
    /\ files' = Delete(files, RemoveRecursiveKeys(name, files))
    /\ Returns("RemoveRecursive", name, Nil)
    /\ NoEvents
    /\ UNCHANGED <<fs, ignored, ops, ignoreHidden, ffh>>

\* Ignore, were the path added to w.ignored without RemoveRecursive(path)
IgnoreWithoutRemove(path) ==
    /\ steps < MaxSteps
    /\ ignored' = ignored \cup {path}
    /\ Returns("Ignore", path, Nil)
    /\ NoEvents
    /\ UNCHANGED <<fs, names, files, ops, ignoreHidden, ffh>>

\* w.Ignore(path): RemoveRecursive(path), then the path joins w.ignored
Ignore(path) ==
    /\ steps < MaxSteps
    /\ names' = Delete(names, {path})
    /\ files' = Delete(files, RemoveRecursiveKeys(path, files))
    /\ ignored' = ignored \cup {path}
    /\ Returns("Ignore", path, Nil)
    /\ NoEvents
    /\ UNCHANGED <<fs, ops, ignoreHidden, ffh>>

-----------------------------------------------------------------------------
(* retrieveFileList and Diff *)

\* The loop of retrieveFileList over w.names in the order range yields them.
\* A root that no longer exists ends the loop with ErrWatchedFileDeleted: the
\* call of Remove or RemoveRecursive that follows the return statement is
\* never executed.
RECURSIVE RetrieveLoop(_, _, _, _, _, _, _)
RetrieveLoop(order, nms, fsys, ign, hid, hooks, acc) ==
    IF order = <<>> THEN [list |-> acc, err |-> Nil]
    ELSE
        LET name == Head(order)
            r == IF nms[name]
                 THEN listRecursive(name, fsys, ign, hid, hooks)
                 ELSE list(name, fsys, ign, hid, hooks)
        IN  IF r.err # Nil /\ IsNotExist(r.err) /\ name = r.err.path
            THEN [list |-> EmptyMap, err |-> ErrWatchedFileDeleted]
            ELSE IF r.err # Nil /\ ~IsNotExist(r.err)
            THEN [list |-> EmptyMap, err |-> r.err]
            ELSE RetrieveLoop(Tail(order), nms, fsys, ign, hid, hooks,
                              Merge(acc, r.list))

\* w.retrieveFileList()
retrieveFileList(order) ==
    RetrieveLoop(order, names, fs, ignored, ignoreHidden, ffh, EmptyMap)

\* Diff, were the fresh mapping stored as the new snapshot
DiffStoring ==
    /\ steps < MaxSteps
    /\ \E order \in Orders(DOMAIN names) :
          LET r == retrieveFileList(order)
          IN  IF r.err # Nil
              THEN /\ fileList' = EmptyMap
                   /\ res' = EmptyBag
                   /\ events' = EmptyBag
                   /\ files' = files
                   /\ Returns("Diff", EmptyPath, r.err)
              ELSE /\ fileList' = r.list
                   /\ \E rorder \in Orders(RemovesOf(files, r.list)) :
                         res' = Unfiltered(files, r.list, rorder)
                   /\ events' = FilterRes(res', ops)
                   /\ files' = r.list
                   /\ Returns("Diff", EmptyPath, Nil)
    /\ UNCHANGED <<fs, names, ignored, ops, ignoreHidden, ffh>>

\* w.Diff()
Diff ==
    /\ steps < MaxSteps
    /\ \E order \in Orders(DOMAIN names) :
          LET r == retrieveFileList(order)
          IN  IF r.err # Nil
              THEN /\ fileList' = EmptyMap
                   /\ res' = EmptyBag
                   /\ events' = EmptyBag
                   /\ Returns("Diff", EmptyPath, r.err)
              ELSE /\ fileList' = r.list
                   /\ \E rorder \in Orders(RemovesOf(files, r.list)) :
                         res' = Unfiltered(files, r.list, rorder)
                   /\ events' = FilterRes(res', ops)
                   /\ Returns("Diff", EmptyPath, Nil)
    /\ UNCHANGED <<fs, names, files, ignored, ops, ignoreHidden, ffh>>

-----------------------------------------------------------------------------
(* The filesystem under the watcher *)

FsInit ==
    [p \in Paths |->
        CASE p = PA   -> FileInfo(Base(p), 0, 0, 0, TRUE, 1)
          [] p = PAH  -> FileInfo(Base(p), 0, 0, 0, TRUE, 2)
          [] p = PAHC -> FileInfo(Base(p), 0, 0, 0, FALSE, 3)
          [] p = PAF  -> FileInfo(Base(p), 0, 0, 0, FALSE, 4)
          [] p = PAB  -> FileInfo(Base(p), 0, 0, 0, FALSE, 5)
          [] OTHER    -> NoFile]

\* a change of the filesystem between two calls
FsStep(what, p) ==
    /\ steps < MaxSteps
    /\ Returns(what, p, Nil)
    /\ NoEvents
    /\ UNCHANGED <<names, files, ignored, ops, ignoreHidden, ffh>>

\* a file is written: its modification time and size change
FsWrite(p) ==
    /\ fs[p] # NoFile /\ ~fs[p].dir
    /\ fs' = [fs EXCEPT ![p].modTime = @ + 1, ![p].size = @ + 1]
    /\ FsStep("FsWrite", p)

\* a file or a directory tree is removed
FsRemove(p) ==
    /\ fs[p] # NoFile
    /\ fs' = [q \in Paths |-> IF Under(q, p) THEN NoFile ELSE fs[q]]
    /\ FsStep("FsRemove", p)

-----------------------------------------------------------------------------
(* The watcher over the filesystem *)

\* New()
Init ==
    /\ fs = FsInit
    /\ names = EmptyMap
    /\ files = EmptyMap
    /\ ignored = {}
    /\ ops = {}
    /\ ignoreHidden = FALSE
    /\ ffh = <<>>
    /\ fileList = EmptyMap
    /\ res = EmptyBag
    /\ events = EmptyBag
    /\ last = NoCall
    /\ steps = 0

Next ==
    \/ \E f \in Hooks : AddFilterHook(f)
    \/ \E b \in BOOLEAN : IgnoreHiddenFiles(b)
    \/ \E o \in OpFilters : FilterOps(o)
    \/ \E name \in Paths : Add(name)
    \/ \E name \in Paths : AddRecursive(name)
    \/ \E name \in Paths : RemoveCall(name)
    \/ \E name \in Paths : RemoveRecursive(name)
    \/ \E path \in Paths : Ignore(path)
    \/ Diff
    \/ \E p \in Paths : FsWrite(p)
    \/ \E p \in Paths : FsRemove(p)

Spec == Init /\ [][Next]_vars

-----------------------------------------------------------------------------
(* Properties of getDiff *)

\* a diff has been computed: files is the stored snapshot, fileList the fresh
\* mapping, res the events before and events the events after the Op filter
DiffDone == last.op \in {"getDiff", "Diff"} /\ last.err = Nil

\* number of events of bag B that lie in the set S
CountIn(B, S) == BagCardinality([e \in (DOMAIN B) \cap S |-> B[e]])

\* the events of bag B that name path p as their Path or OldPath
Touching(B, p) == {e \in DOMAIN B : e.Path = p \/ e.OldPath = p}

\* removed candidate p1 and created candidate p2 carry the same identity
\* token, and no other removed or created candidate carries it
UniquePair(p1, p2) ==
    /\ p1 \in DOMAIN files /\ p1 \notin DOMAIN fileList
    /\ p2 \in DOMAIN fileList /\ p2 \notin DOMAIN files
    /\ files[p1].sys = fileList[p2].sys
    /\ \A q \in DOMAIN files :
          (q \notin DOMAIN fileList /\ files[q].sys = files[p1].sys) => q = p1
    /\ \A q \in DOMAIN fileList :
          (q \notin DOMAIN files /\ fileList[q].sys = files[p1].sys) => q = p2

SameParent(p1, p2) ==
    SubSeq(p1, 1, LastSep(p1)) = SubSeq(p2, 1, LastSep(p2))

\* C1: when exactly one removed candidate p1 and exactly one created
\* candidate p2 carry the same identity token, the unfiltered diff holds
\* exactly one event naming p1 or p2: a Rename when they have the same
\* parent directory, otherwise a Move, with Path = p2 and OldPath = p1; no
\* Create of p2 and no Remove of p1.
C1_RenameOrMoveOnce ==
    DiffDone =>
        \A p1, p2 \in Paths \cup DiffPaths :
            UniquePair(p1, p2) =>
                /\ CountIn(res, Touching(res, p1) \cup Touching(res, p2)) = 1
                /\ \A e \in Touching(res, p1) \cup Touching(res, p2) :
                      /\ e.Op = IF SameParent(p1, p2) THEN Rename ELSE Move
                      /\ e.Path = p2
                      /\ e.OldPath = p1

\* a rename has been correlated while a third path was written in place
C1_Witness ==
    /\ DiffDone
    /\ \E p1, p2 \in Paths \cup DiffPaths :
          /\ UniquePair(p1, p2)
          /\ SameParent(p1, p2)
          /\ \E e \in DOMAIN res : e.Op = Rename /\ e.Path = p2 /\ e.OldPath = p1
    /\ \E e \in DOMAIN res : e.Op = Write

\* C2: for a path in both mappings the unfiltered diff holds one Write event
\* iff the modification times differ and one Chmod event iff the modes
\* differ, and no other event; a change of size alone yields no event.
C2_WriteChmod ==
    DiffDone =>
        \A p \in (DOMAIN files) \cap (DOMAIN fileList) :
            LET wr == {e \in Touching(res, p) : e.Op = Write}
                ch == {e \in Touching(res, p) : e.Op = Chmod}
            IN  /\ CountIn(res, wr) =
                      IF files[p].modTime # fileList[p].modTime THEN 1 ELSE 0
                /\ CountIn(res, ch) =
                      IF files[p].mode # fileList[p].mode THEN 1 ELSE 0
                /\ Touching(res, p) = wr \cup ch
                /\ \A e \in Touching(res, p) : e.Path = p

\* one path changed in size alone, another in modification time and mode
C2_Witness ==
    /\ DiffDone
    /\ \E p \in (DOMAIN files) \cap (DOMAIN fileList) :
          /\ files[p].size # fileList[p].size
          /\ files[p].modTime = fileList[p].modTime
          /\ files[p].mode = fileList[p].mode
    /\ \E p \in (DOMAIN files) \cap (DOMAIN fileList) :
          /\ files[p].modTime # fileList[p].modTime
          /\ files[p].mode # fileList[p].mode
          /\ CountIn(res, Touching(res, p)) = 2

\* C5: with a non-empty Op filter the diff returns exactly the events of the
\* unfiltered diff whose Op is in the filter, with an empty filter all of
\* them; with the filter {Create} and nothing removed, it returns one Create
\* event per new path, with empty OldPath and the new path as Path.
C5_OpFilter ==
    DiffDone =>
        /\ \A e \in (DOMAIN res) \cup (DOMAIN events) :
              CopiesIn(e, events) =
                  IF ops = {} \/ e.Op \in ops THEN CopiesIn(e, res) ELSE 0
        /\ (ops = {Create} /\ DOMAIN files \subseteq DOMAIN fileList) =>
              /\ BagCardinality(events) =
                    Cardinality((DOMAIN fileList) \ (DOMAIN files))
              /\ \A p \in (DOMAIN fileList) \ (DOMAIN files) :
                    CopiesIn([Op |-> Create, Path |-> p, OldPath |-> <<>>,
                              FileInfo |-> fileList[p]], events) = 1

\* the filter {Create} dropped a Write event and kept two Create events
C5_Witness ==
    /\ DiffDone
    /\ ops = {Create}
    /\ DOMAIN files \subseteq DOMAIN fileList
    /\ BagCardinality(events) = 2
    /\ \E e \in DOMAIN res : e.Op = Write

-----------------------------------------------------------------------------
(* Properties of the Watcher *)

C4_DeletedRootDeregistered ==
    [][(last'.op = "Diff" /\ last'.err = ErrWatchedFileDeleted) =>
          /\ events' = EmptyBag
          /\ \E root \in DOMAIN names :
                fs[root] = NoFile /\ root \notin DOMAIN names']_vars

\* C6: after Ignore(P) the stored snapshot holds no key at or under P, P is
\* no registered root, and P is in the ignore set.
C6_IgnorePurges ==
    (last.op = "Ignore" /\ last.err = Nil) =>
        /\ \A k \in DOMAIN files : ~Under(k, last.arg)
        /\ last.arg \notin DOMAIN names
        /\ last.arg \in ignored

\* C7: Add(P) or AddRecursive(P) of a path P of the ignore set returns no
\* error and leaves the stored snapshot as it was.  Stated for the paths that
\* exist on the filesystem.
C7_IgnoredAddIsNoOp ==
    [][(/\ last'.op \in {"Add", "AddRecursive"}
        /\ last'.arg \in ignored
        /\ fs[last'.arg] # NoFile) =>
          (last'.err = Nil /\ files' = files)]_vars

\* names and files are empty, as New() leaves them
Fresh == names = EmptyMap /\ files = EmptyMap

\* path p is in the ignore set, or hidden while hidden files are ignored
Excluded(p) == p \in ignored \/ (ignoreHidden /\ isHiddenFile(p))

\* a filter hook answers ErrSkip for p
Skipped(p) == RunHooks(ffh, fs[p], p) = ErrSkip

\* the paths at or under root
Subtree(root) == {p \in Paths : fs[p] # NoFile /\ Under(p, root)}

\* C8 as stated: on a fresh watcher a successful AddRecursive(R) stores
\* exactly the paths at or under R that are neither ignored nor hidden-excluded,
\* and records R as a recursive root.  Stated for a watcher without filter
\* hooks, of which the claim does not speak.
C8_AsStated ==
    [][(Fresh /\ ffh = <<>> /\ last'.op = "AddRecursive" /\ last'.err = Nil) =>
          /\ DOMAIN files' = {p \in Subtree(last'.arg) : ~Excluded(p)}
          /\ names' = [q \in {last'.arg} |-> TRUE]]_vars

\* C8, amended: on a fresh watcher a successful AddRecursive(R) stores exactly
\* the paths at or under R that are neither ignored nor hidden-excluded nor
\* skipped by a filter hook, and that lie under no directory from R down
\* which is ignored or hidden-excluded and not skipped by a filter hook; each
\* with its current metadata; and it records R as a recursive root.
C8_RecursiveSnapshot ==
    [][(Fresh /\ last'.op = "AddRecursive" /\ last'.err = Nil) =>
          /\ DOMAIN files' =
                {p \in Subtree(last'.arg) :
                    /\ ~Excluded(p)
                    /\ ~Skipped(p)
                    /\ \A d \in Subtree(last'.arg) :
                          (Under(p, d) /\ d # p) => ~(Excluded(d) /\ ~Skipped(d))}
          /\ \A p \in DOMAIN files' : files'[p] = fs[p]
          /\ names' = [q \in {last'.arg} |-> TRUE]]_vars

\* AddRecursive(/a) on a fresh watcher that ignores hidden files has stored
\* /a and /a/f and pruned /a/.h with /a/.h/c
C8_Witness ==
    /\ last = Call("AddRecursive", PA, Nil)
    /\ steps = 2
    /\ ignoreHidden
    /\ DOMAIN files = {PA, PAF}
    /\ names = [q \in {PA} |-> TRUE]

\* p is a directory of the filesystem
IsDirectory(p) == fs[p] # NoFile /\ fs[p].dir

\* the entries of directory D that pass filtering
PassingChildren(D) ==
    {p \in Paths : fs[p] # NoFile /\ Dir(p) = D /\ ~Excluded(p) /\ ~Skipped(p)}

\* C9 as stated: on a fresh watcher a successful Add(D) of a directory D
\* with N entries passing filtering stores exactly N+1 entries, D and those
\* N entries, and records D as a non-recursive root.  Stated for a watcher
\* without filter hooks, where every entry passes the hooks.
C9_AsStated ==
    [][(/\ Fresh
        /\ ffh = <<>>
        /\ last'.op = "Add"
        /\ last'.err = Nil
        /\ IsDirectory(last'.arg)) =>
          /\ DOMAIN files' = {last'.arg} \cup PassingChildren(last'.arg)
          /\ Cardinality(DOMAIN files') = Cardinality(PassingChildren(last'.arg)) + 1
          /\ names' = [q \in {last'.arg} |-> FALSE]]_vars

\* C9, amended: the same, for a directory D that is itself neither in the
\* ignore set nor hidden while hidden files are ignored.
C9_ShallowSnapshot ==
    [][(/\ Fresh
        /\ last'.op = "Add"
        /\ last'.err = Nil
        /\ IsDirectory(last'.arg)
        /\ ~Excluded(last'.arg)) =>
          /\ DOMAIN files' = {last'.arg} \cup PassingChildren(last'.arg)
          /\ Cardinality(DOMAIN files') = Cardinality(PassingChildren(last'.arg)) + 1
          /\ \A p \in DOMAIN files' : files'[p] = fs[p]
          /\ names' = [q \in {last'.arg} |-> FALSE]]_vars

\* Add(/a) on a fresh watcher that ignores /a/f has stored /a and /a/.h, and
\* not /a/.h/c
C9_Witness ==
    /\ last = Call("Add", PA, Nil)
    /\ steps = 2
    /\ ignored = {PAF}
    /\ DOMAIN files = {PA, PAH}
    /\ names = [q \in {PA} |-> FALSE]

-----------------------------------------------------------------------------
(* Properties of removal and of registration errors *)

C12_AsStated ==
    [][(/\ last'.op \in {"Add", "AddRecursive"}
        /\ fs[last'.arg] = NoFile) =>
          /\ last'.err # Nil
          /\ files' = files
          /\ names' = names]_vars

\* C12, amended: AddRecursive(P) of a path P that does not exist, and Add(P)
\* of such a path that is neither in the ignore set nor hidden while hidden
\* files are ignored, returns the not-exist error of P and leaves the stored
\* snapshot, the roots and the ignore set unchanged.
C12_NotFound ==
    [][(/\ last'.op \in {"Add", "AddRecursive"}
        /\ fs[last'.arg] = NoFile
        /\ (last'.op = "Add" => ~Excluded(last'.arg))) =>
          /\ last'.err = PathErrNotExist(last'.arg)
          /\ files' = files
          /\ names' = names
          /\ ignored' = ignored]_vars

\* AddRecursive of the removed file /ab has failed on a watcher that holds
\* the root /a
C12_Witness ==
    /\ last = Call("AddRecursive", PAB, PathErrNotExist(PAB))
    /\ fs[PAB] = NoFile
    /\ names = [q \in {PA} |-> FALSE]
    /\ PAB \notin DOMAIN files
    /\ PA \in DOMAIN files

-----------------------------------------------------------------------------
(* Properties of the events of getDiff *)

\* the Rename and Move events of bag B
Correlations(B) == {e \in DOMAIN B : e.Op \in {Rename, Move}}

\* C13 as stated: every event the diff returns has an empty OldPath unless
\* its Op is Rename or Move.
C13_AsStated ==
    DiffDone =>
        \A e \in DOMAIN events :
            e.Op \notin {Rename, Move} => e.OldPath = EmptyPath

\* C13, amended: a Create event has an empty OldPath; a Write, Chmod or
\* Remove event has OldPath equal to its Path; for a Rename or Move event
\* OldPath is a path that disappeared, Path a path that appeared, and the
\* two carry the same identity token.
C13_OldPath ==
    DiffDone =>
        \A e \in DOMAIN events :
            /\ e.Op = Create => e.OldPath = EmptyPath
            /\ e.Op \in {Write, Chmod, Remove} => e.OldPath = e.Path
            /\ e.Op \in {Rename, Move} =>
                  /\ e.OldPath \in RemovesOf(files, fileList)
                  /\ e.Path \in CreatesOf(files, fileList)
                  /\ sameFile(files[e.OldPath], fileList[e.Path])

\* the diff has returned a Move, a Remove and no other event
C13_Witness ==
    /\ DiffDone
    /\ BagCardinality(events) = 2
    /\ \E e \in DOMAIN events : e.Op = Move /\ e.OldPath # e.Path
    /\ \E e \in DOMAIN events : e.Op = Remove /\ e.OldPath = e.Path

\* C14: among the Rename and Move events of one diff the OldPath values are
\* pairwise distinct and the Path values are pairwise distinct, also when
\* several candidates carry the same identity token.
C14_OneCorrelationEach ==
    DiffDone =>
        /\ \A e \in Correlations(events) : CopiesIn(e, events) = 1
        /\ \A e1, e2 \in Correlations(events) :
              (e1.OldPath = e2.OldPath \/ e1.Path = e2.Path) => e1 = e2

\* C15: in the unfiltered diff every created path that is the Path of no
\* Rename or Move event has exactly one Create event, with empty OldPath and
\* the new metadata; every removed path that is the OldPath of no Rename or
\* Move event has exactly one Remove event, with Path and OldPath the removed
\* path and the stored metadata; there is no other Create or Remove event;
\* and every created or removed path is named by at least one event.
C15_ResidualEmission ==
    DiffDone =>
        LET created  == CreatesOf(files, fileList)
            removed  == RemovesOf(files, fileList)
            matchedC == {e.Path : e \in Correlations(res)}
            matchedR == {e.OldPath : e \in Correlations(res)}
            crEv     == {e \in DOMAIN res : e.Op = Create}
            rmEv     == {e \in DOMAIN res : e.Op = Remove}
        IN  /\ \A p \in created \ matchedC :
                  /\ CountIn(res, {e \in crEv : e.Path = p}) = 1
                  /\ Event(Create, p, EmptyPath, fileList[p]) \in crEv
            /\ \A p \in removed \ matchedR :
                  /\ CountIn(res, {e \in rmEv : e.Path = p}) = 1
                  /\ Event(Remove, p, p, files[p]) \in rmEv
            /\ \A e \in crEv : e.Path \in created \ matchedC
            /\ \A e \in rmEv : e.Path \in removed \ matchedR
            /\ \A p \in created \cup removed : Touching(res, p) # {}

\* two paths were removed and one created that carries the identity token of
\* one of them: the diff holds a correlation and the Remove event of the other
C15_Witness ==
    /\ DiffDone
    /\ Cardinality(RemovesOf(files, fileList)) = 2
    /\ Cardinality(Correlations(res)) = 1
    /\ \E e \in DOMAIN res : e.Op = Remove

-----------------------------------------------------------------------------
(* Properties of filtering *)

\* a filter hook answers an error other than ErrSkip for the existing path p
Aborting(p) == fs[p] # NoFile /\ RunHooks(ffh, fs[p], p) \notin {Nil, ErrSkip}

\* C16: a successful AddRecursive(R) on a fresh watcher stores no path at or
\* under a directory of R's subtree that is in the ignore set, hidden while
\* hidden files are ignored, or skipped by a filter hook.
C16_SubtreePruned ==
    [][(Fresh /\ last'.op = "AddRecursive" /\ last'.err = Nil) =>
          \A d \in Subtree(last'.arg) :
              (IsDirectory(d) /\ (Excluded(d) \/ Skipped(d))) =>
                  \A p \in DOMAIN files' : ~Under(p, d)]_vars

\* C17: Add(P) of an existing path P that is in the ignore set, hidden while
\* hidden files are ignored, or skipped by a filter hook returns nil and
\* leaves the stored snapshot and the roots as they were.
C17_ExcludedAddIsNoOp ==
    [][(/\ last'.op = "Add"
        /\ fs[last'.arg] # NoFile
        /\ (Excluded(last'.arg) \/ Skipped(last'.arg))) =>
          /\ last'.err = Nil
          /\ files' = files
          /\ names' = names]_vars

\* C18: when every path for which a filter hook would answer an aborting
\* error is in the ignore set or hidden-excluded, no hook is invoked for it,
\* in shallow as in recursive listing: Add, AddRecursive and Diff do not
\* return that error.
C18_SameFilterOrder ==
    [][(/\ last'.op \in {"Add", "AddRecursive", "Diff"}
        /\ \A p \in Paths : Aborting(p) => Excluded(p)) =>
          \A p \in Paths :
              Aborting(p) => last'.err # RunHooks(ffh, fs[p], p)]_vars

\* the listing of the call reaches path p: nothing is ignored or hidden-
\* excluded, every root exists, and p is an entry of the directory given to
\* Add, lies under the path given to AddRecursive, or lies so with respect to
\* a registered root when the call is Diff
Reaches(call, p) ==
    /\ ignored = {}
    /\ ~ignoreHidden
    /\ CASE call.op = "Add" -> IsDirectory(call.arg) /\ Dir(p) = call.arg
         [] call.op = "AddRecursive" -> fs[call.arg] # NoFile /\ Under(p, call.arg)
         [] call.op = "Diff" ->
               /\ \A r \in DOMAIN names : fs[r] # NoFile
               /\ \E r \in DOMAIN names :
                     IF names[r] THEN Under(p, r)
                     ELSE IsDirectory(r) /\ Dir(p) = r
         [] OTHER -> FALSE

\* C19: when the listing of Add, AddRecursive or Diff reaches a path for
\* which a filter hook answers an error E other than ErrSkip, the call
\* returns E and no events, and leaves the stored snapshot and the roots as
\* they were.
C19_HookErrorAborts ==
    [][\A p \in Paths :
          (Aborting(p) /\ Reaches(last', p)) =>
              /\ last'.err = RunHooks(ffh, fs[p], p)
              /\ events' = EmptyBag
              /\ files' = files
              /\ names' = names]_vars

\* the stored snapshot is the mapping obtained by listing the registered
\* roots again, in whatever order
ConsistentWith(nms, fls, ign) ==
    \A o \in Orders(DOMAIN nms) :
        RetrieveLoop(o, nms, fs, ign, ignoreHidden, ffh, EmptyMap)
            = [list |-> fls, err |-> Nil]

\* C20: starting from a watcher whose stored snapshot equals the listing of
\* its roots, a successful Add, AddRecursive, Remove, RemoveRecursive or
\* Ignore leaves the stored snapshot equal to the listing of the roots, and
\* a Diff in such a state returns no events.
C20_SnapshotConsistent ==
    [][/\ (/\ ConsistentWith(names, files, ignored)
           /\ last'.op \in {"Add", "AddRecursive", "Remove", "RemoveRecursive",
                              "Ignore"}
           /\ last'.err = Nil) => ConsistentWith(names', files', ignored')
       /\ (ConsistentWith(names, files, ignored) /\ last'.op = "Diff" /\ ops = {}) =>
              (last'.err = Nil /\ events' = EmptyBag)]_vars

-----------------------------------------------------------------------------
(* Properties of the stored snapshot *)

\* key k is a root of nms, an entry of the directory of a root, or lies under
\* a recursive root
Covered(k, nms) ==
    \E r \in DOMAIN nms : k = r \/ Dir(k) = r \/ (nms[r] /\ Under(k, r))

\* C21: after every call each key of the stored snapshot is a registered
\* root, an immediate child of a registered root, or a descendant of a
\* registered recursive root; and Remove and RemoveRecursive do not delete the
\* entry of a path that is still a registered root afterwards.
C21_EntriesCovered ==
    [][/\ \A k \in DOMAIN files' : Covered(k, names')
       /\ last'.op \in {"Remove", "RemoveRecursive"} =>
              \A r \in (DOMAIN names') \cap (DOMAIN files) : r \in DOMAIN files']_vars

\* C22: no key of the stored snapshot is a member of the ignore set.
C22_NoIgnoredKey ==
    (DOMAIN files) \cap ignored = {}

\* /a/f was stored by Add(/a), then ignored, and AddRecursive(/a) has listed
\* the tree again without it
C22_Witness ==
    /\ last = Call("AddRecursive", PA, Nil)
    /\ ignored = {PAF}
    /\ fs[PAF] # NoFile
    /\ names = [q \in {PA} |-> TRUE]
    /\ DOMAIN files = {PA, PAH, PAHC}
    /\ steps = 3

\* no two removed candidates carry the same identity token, and no two
\* created candidates do
UniqueTokens ==
    /\ \A p, q \in RemovesOf(files, fileList) :
          sameFile(files[p], files[q]) => p = q
    /\ \A p, q \in CreatesOf(files, fileList) :
          sameFile(fileList[p], fileList[q]) => p = q

\* C23: when no two removed candidates share an identity token and no two
\* created candidates share one, every order in which the removed candidates
\* may be visited yields the events the diff has returned, before and after
\* the Op filter.
C23_Deterministic ==
    (DiffDone /\ UniqueTokens) =>
        \A o \in Orders(RemovesOf(files, fileList)) :
            /\ Unfiltered(files, fileList, o) = res
            /\ FilterRes(Unfiltered(files, fileList, o), ops) = events

\* two paths with different identity tokens were removed, and a created path
\* carries the token of one of them: one correlation, one Remove event
C23_Witness ==
    /\ DiffDone
    /\ UniqueTokens
    /\ Cardinality(RemovesOf(files, fileList)) = 2
    /\ Cardinality(CreatesOf(files, fileList)) = 1
    /\ Cardinality(Correlations(events)) = 1
    /\ \E e \in DOMAIN events : e.Op = Remove

====
